---- MODULE Spec2Model ----
(***************************************************************************)
(* tap-awin / tap-awin-publisher: one sync of one stream for one account.  *)
(*                                                                         *)
(* The pagination loop of the extraction framework drives the stream's     *)
(* overrides: get_records, get_url_params, validate_response (inside the   *)
(* request wrapped by request_decorator) and get_next_page_token.          *)
(*                                                                         *)
(* Time: a datetime is [day, tod], tod = 0 being midnight.  The clock is   *)
(* read at every call but does not advance within one sync, and the local  *)
(* zone of date.today() is the zone of the timestamps.                     *)
(***************************************************************************)
EXTENDS Integers, Sequences, FiniteSets, TLC

VARIABLES
    variant,            \* "advertiser" (tap_awin) or "publisher" (tap_awin_publisher)
    stream,             \* the stream's name
    account_type,       \* context["account_type"] of the child context
    now,                \* datetime.datetime.now()
    config,             \* [start_date, lookback_days]
    bookmark,           \* the state's replication key value, or NoBookmark
    jsonpath,           \* self.next_page_token_jsonpath
    pc,                 \* position of the sync
    pageNo,             \* number of requests prepared so far
    prev,               \* the previously prepared request
    cur,                \* the request being sent
    attempts,           \* calls made for the current request
    resp,               \* the last response received
    next_page_token,    \* the loop's next_page_token
    previous_token,     \* the loop's previous_token
    hdrCount,           \* responses so far that carried a non-empty X-Next-Page
    pending,            \* account records of the accounts response not yet emitted
    emitted,            \* account records the accounts stream has emitted
    contexts,           \* child contexts made by get_child_context, one per record
    account_id,         \* context["account_id"] of the child context
    children,           \* child streams still to sync for the current context
    url_path,           \* url path of the current request
    records,            \* records emitted from the response to the current request
    earlier_dates       \* last transactionDate stamped on a record of an earlier page

parentVars == <<pending, emitted, contexts, account_id, children>>

vars == <<variant, stream, account_type, now, config, bookmark, jsonpath, pc,
          pageNo, prev, cur, attempts, resp, next_page_token, previous_token,
          hdrCount, parentVars, url_path, records, earlier_dates>>

----------------------------------------------------------------------------
(* Bounds *)

MaxDay == 3             \* the days of the model are 0..MaxDay
MaxLookback == 1        \* lookback_days ranges over 0..MaxLookback
MaxHeaderPages == 1     \* responses of one sync that carry a non-empty X-Next-Page
MaxRows == 1            \* rows in one response body
MaxAccounts == 2        \* account records in the accounts response

Days == 0..MaxDay
Tods == {0, 1}          \* times of day: midnight and a later time
Today == MaxDay - 1     \* the day of the clock; MaxDay is a day in the future

(* Program constants *)

max_tries == 10

None == "None"
NoBookmark == [day |-> -1, tod |-> 0]

TIMESTAMP_FORMAT == "%Y-%m-%dT%H:%M:%S"
REPORT_TIMESTAMP_FORMAT == "%Y-%m-%d"

----------------------------------------------------------------------------
(* datetime *)

Datetime(d, t) == [day |-> d, tod |-> t]

timedelta(dt, days) == [dt EXCEPT !.day = @ + days]

Before(a, b) == a.day < b.day \/ (a.day = b.day /\ a.tod < b.tod)

min(a, b) == IF Before(b, a) THEN b ELSE a

\* dt.replace(hour=0, minute=0, second=0, microsecond=0)
replace_midnight(dt) == [dt EXCEPT !.tod = 0]

\* strftime: the full format keeps the time of day, the report format drops it
strftime(dt, fmt) ==
    IF fmt = REPORT_TIMESTAMP_FORMAT THEN <<dt.day>> ELSE <<dt.day, dt.tod>>

\* strptime: a string without a time of day parses to midnight
strptime(s, fmt) ==
    IF fmt = REPORT_TIMESTAMP_FORMAT
    THEN Datetime(s[1], 0)
    ELSE Datetime(s[1], s[2])

----------------------------------------------------------------------------
(* tokens *)

NoToken == [kind |-> "none", day |-> 0, tod |-> 0, val |-> ""]
DatetimeToken(dt) == [kind |-> "datetime", day |-> dt.day, tod |-> dt.tod, val |-> ""]
StrToken(s) == [kind |-> "str", day |-> 0, tod |-> 0, val |-> s]

\* Python truthiness of a token: None and "" are falsy
Truthy(tok) == tok.kind = "datetime" \/ (tok.kind = "str" /\ tok.val # "")

----------------------------------------------------------------------------
(* stream declarations *)

Variants == {"advertiser", "publisher"}

StreamsOf(v) ==
    IF v = "advertiser"
    THEN {"accounts", "transactions", "publishers", "report_by_publisher"}
    ELSE {"accounts", "transactions"}

\* the streams that override get_url_params and get_next_page_token
Windowed(s) == s \in {"transactions", "report_by_publisher"}

\* the class attribute next_page_token_jsonpath of each stream
next_page_token_jsonpath(s) == IF s = "accounts" THEN "$.next_page" ELSE None

TimestampFormat(s) ==
    IF s = "report_by_publisher" THEN REPORT_TIMESTAMP_FORMAT ELSE TIMESTAMP_FORMAT

\* the child contexts a stream is run with: account_type is carried only by the
\* advertiser variant's child streams
ContextTypes(v, s) ==
    IF v = "advertiser" /\ s # "accounts" THEN {"advertiser", "publisher"} ELSE {None}

----------------------------------------------------------------------------
(* get_starting_timestamp: the bookmark when the state has one, else the      *)
(* configured start_date                                                      *)

get_starting_timestamp(bm, cfg) == IF bm = NoBookmark THEN cfg.start_date ELSE bm

----------------------------------------------------------------------------
(* get_url_params *)

\* start_date: the token when it is a datetime, else starting timestamp - lookback
StartDate(tok, bm, cfg) ==
    IF tok.kind = "datetime"
    THEN Datetime(tok.day, tok.tod)
    ELSE timedelta(get_starting_timestamp(bm, cfg), -cfg.lookback_days)

\* today (advertiser) or yesterday (publisher): the cap of end_date
Cap(v, clock) == IF v = "publisher" THEN timedelta(clock, -1) ELSE clock

\* mutant: the end of the window without the cap
EndDate_Uncapped(v, start_date, clock) == timedelta(start_date, 1)

EndDate(v, start_date, clock) == min(timedelta(start_date, 1), Cap(v, clock))

NoRequest ==
    [start |-> Datetime(0, 0), startDate |-> <<>>, endDate |-> <<>>, token |-> NoToken]

get_url_params(v, s, tok, bm, cfg, clock) ==
    LET start_date == StartDate(tok, bm, cfg)
        end_date == EndDate(v, start_date, clock)
    IN  [start |-> start_date,
         startDate |-> strftime(replace_midnight(start_date), TimestampFormat(s)),
         endDate |-> strftime(replace_midnight(end_date), TimestampFormat(s)),
         token |-> tok]

\* the request a stream prepares: the streams without the override send no dates
prepare_request(v, s, tok, bm, cfg, clock) ==
    IF Windowed(s)
    THEN get_url_params(v, s, tok, bm, cfg, clock)
    ELSE [NoRequest EXCEPT !.token = tok]

----------------------------------------------------------------------------
(* get_next_page_token *)

\* mutant: the rollover also continues from an endDate of today
Rollover_Inclusive(endDate, fmt, clock) ==
    LET end_date == strptime(endDate, fmt)
    IN  IF end_date.day <= clock.day THEN DatetimeToken(end_date) ELSE NoToken

\* computed rollover: the request's endDate when it is before date.today()
Rollover(endDate, fmt, clock) ==
    LET end_date == strptime(endDate, fmt)
    IN  IF end_date.day < clock.day THEN DatetimeToken(end_date) ELSE NoToken

\* mutant: the header is consulted before the body path
get_next_page_token_HeaderFirst(path, body, header, endDate, fmt, clock) ==
    IF header # None /\ header # ""
    THEN StrToken(header)
    ELSE IF path # None
         THEN IF body = None THEN NoToken ELSE StrToken(body)
         ELSE LET end_date == strptime(endDate, fmt)
              IN  IF end_date.day < clock.day THEN DatetimeToken(end_date) ELSE NoToken

\* the override of the date-windowed streams
get_next_page_token(path, body, header, endDate, fmt, clock) ==
    IF path # None
    THEN IF body = None THEN NoToken ELSE StrToken(body)
    ELSE IF header # None /\ header # ""
         THEN StrToken(header)
         ELSE Rollover(endDate, fmt, clock)

\* the framework's default, used by accounts and publishers
default_next_page_token(path, body, header) ==
    IF path # None
    THEN IF body = None THEN NoToken ELSE StrToken(body)
    ELSE IF header = None THEN NoToken ELSE StrToken(header)

NextToken(s, path, r, req, clock) ==
    IF Windowed(s)
    THEN get_next_page_token(path, r.next_page, r.header, req.endDate,
                             TimestampFormat(s), clock)
    ELSE default_next_page_token(path, r.next_page, r.header)

----------------------------------------------------------------------------
(* validate_response and request_decorator *)

\* mutant: every error status is retried
AwinStream_validate_response_RetryAll(status) ==
    IF 400 <= status /\ status < 600 THEN "retriable" ELSE "ok"

\* AwinStream.validate_response
AwinStream_validate_response(status) ==
    IF status = 429 THEN "retriable"
    ELSE IF 400 <= status /\ status < 500 THEN "fatal"
    ELSE IF 500 <= status /\ status < 600 THEN "retriable"
    ELSE "ok"

\* PublishersStream.validate_response
PublishersStream_validate_response(status) ==
    IF status = 104 THEN "retriable"
    ELSE IF 400 <= status /\ status < 500 THEN "fatal"
    ELSE IF 500 <= status /\ status < 600 THEN "retriable"
    ELSE "ok"

\* AwinPublisherStream.validate_response (tap_awin_publisher/client.py)
AwinPublisherStream_validate_response(status) ==
    IF status = 429 \/ (500 <= status /\ status < 600) THEN "retriable"
    ELSE IF 400 <= status /\ status < 500 THEN "fatal"
    ELSE "ok"

validate_response(v, s, status) ==
    IF v = "publisher" THEN AwinPublisherStream_validate_response(status)
    ELSE IF s = "publishers" THEN PublishersStream_validate_response(status)
    ELSE AwinStream_validate_response(status)

\* mutant: one try too many
GiveUp_Late(tries) == tries > max_tries

\* backoff.on_exception(..., max_tries=10): give up once the tries reach max_tries
GiveUp(tries) == tries >= max_tries

----------------------------------------------------------------------------
(* parent and child streams *)

AccountIds == {1, 2}
AccountTypes == {"advertiser", "publisher"}
AccountRecords == [accountId : AccountIds, accountType : AccountTypes]

ChildStreams(v) == StreamsOf(v) \ {"accounts"}

\* mutant: the context takes the type of an advertiser whatever the record says
get_child_context_FixedType(v, record) ==
    [account_id |-> record.accountId,
     account_type |-> IF v = "advertiser" THEN "advertiser" ELSE None]

\* AccountsStream.get_child_context: the publisher variant carries the id alone
get_child_context(v, record) ==
    IF v = "advertiser"
    THEN [account_id |-> record.accountId, account_type |-> record.accountType]
    ELSE [account_id |-> record.accountId, account_type |-> None]

\* the stream's path formatted with the context, as its segments
Path(v, s, ctx_type, id) ==
    IF s = "accounts" THEN <<"accounts">>
    ELSE IF v = "publisher" THEN <<"advertisers", id, "transactions">>
    ELSE IF s = "transactions" THEN <<ctx_type \o "s", id, "transactions">>
    ELSE IF s = "publishers" THEN <<"advertisers", id, "publishers">>
    ELSE <<ctx_type \o "s", id, "reports", "publisher">>

----------------------------------------------------------------------------
(* parse_response *)

\* mutant: the rows are stamped with the request's endDate
parse_response_EndDate(s, n, req) ==
    IF s = "report_by_publisher"
    THEN [i \in 1..n |->
            [row |-> i,
             transactionDate |-> strptime(req.endDate, REPORT_TIMESTAMP_FORMAT)]]
    ELSE [i \in 1..n |-> [row |-> i]]

\* the rows of a body become records; report_by_publisher stamps each row with
\* the startDate parsed from the request url
parse_response(s, n, req) ==
    IF s = "report_by_publisher"
    THEN [i \in 1..n |->
            [row |-> i,
             transactionDate |-> strptime(req.startDate, REPORT_TIMESTAMP_FORMAT)]]
    ELSE [i \in 1..n |-> [row |-> i]]

\* the transactionDate last stamped, once the records rs have been emitted
LastStamped(s, rs, before) ==
    IF s = "report_by_publisher" /\ rs # <<>>
    THEN <<rs[Len(rs)].transactionDate>>
    ELSE before

----------------------------------------------------------------------------
(* responses of the API *)

Statuses == {200, 404, 429, 500}
Headers == {None, "", "p2"}          \* X-Next-Page: absent, empty, a page id
BodyTokens == {None, "b2"}           \* first match of $.next_page in the body

RowCounts == 0..MaxRows

NoResponse == [status |-> 0, header |-> None, next_page |-> None]

Response(status, header, body) ==
    [status |-> status, header |-> header, next_page |-> body]

----------------------------------------------------------------------------
(* the state after construction: a tap configured and a stream about to sync *)

Configs ==
    {[start_date |-> Datetime(d, 0), lookback_days |-> l] :
        d \in Days, l \in 0..MaxLookback}

\* a bookmark is a transactionDate emitted by an earlier run of the same config:
\* it is not later than the clock's day
Bookmarks(cfg) ==
    {NoBookmark} \cup
    {Datetime(d, t) :
        d \in {x \in Days : x >= cfg.start_date.day /\ x <= Today}, t \in Tods}

\* a child stream runs in the context made from one emitted account record
InitContext ==
    /\ pending = <<>>
    /\ children = {}
    /\ emitted = IF stream = "accounts" THEN <<>>
                 ELSE <<[accountId |-> 1,
                         accountType |-> IF account_type = None THEN "publisher"
                                         ELSE account_type]>>
    /\ contexts = [i \in DOMAIN emitted |-> get_child_context(variant, emitted[i])]
    /\ account_id = IF stream = "accounts" THEN 0 ELSE 1
    /\ url_path = <<>>
    /\ records = <<>>
    /\ earlier_dates = <<>>

Init ==
    /\ variant \in Variants
    /\ stream \in StreamsOf(variant)
    /\ account_type \in ContextTypes(variant, stream)
    /\ now \in {Datetime(Today, t) : t \in Tods}
    /\ config \in Configs
    /\ bookmark \in Bookmarks(config)
    /\ jsonpath = next_page_token_jsonpath(stream)
    /\ pc = "start"
    /\ pageNo = 0
    /\ prev = NoRequest
    /\ cur = NoRequest
    /\ attempts = 0
    /\ resp = NoResponse
    /\ next_page_token = NoToken
    /\ previous_token = NoToken
    /\ hdrCount = 0
    /\ InitContext

----------------------------------------------------------------------------
(* get_records *)

\* mutant: the test of the account type inverted
SkipsRecords_Inverted(s, ctx_type) == s = "publishers" /\ ctx_type = "advertiser"

\* PublishersStream.get_records: skip the accounts that are not advertisers
SkipsRecords(s, ctx_type) == s = "publishers" /\ ctx_type # "advertiser"

SkipPublishers ==
    /\ pc = "start"
    /\ SkipsRecords(stream, account_type)
    /\ pc' = "skipped"
    /\ UNCHANGED <<variant, stream, account_type, now, config, bookmark, jsonpath,
                   pageNo, prev, cur, attempts, resp, next_page_token,
                   previous_token, hdrCount, parentVars, url_path, records,
                   earlier_dates>>

GetRecords ==
    /\ pc = "start"
    /\ ~SkipsRecords(stream, account_type)
    /\ pc' = "prepare"
    /\ UNCHANGED <<variant, stream, account_type, now, config, bookmark, jsonpath,
                   pageNo, prev, cur, attempts, resp, next_page_token,
                   previous_token, hdrCount, parentVars, url_path, records,
                   earlier_dates>>

----------------------------------------------------------------------------
(* the pagination loop *)

\* prepare_request(context, next_page_token): one request per page
PrepareRequest ==
    /\ pc = "prepare"
    /\ prev' = cur
    /\ cur' = prepare_request(variant, stream, next_page_token, bookmark, config, now)
    /\ pageNo' = pageNo + 1
    /\ attempts' = 0
    /\ resp' = NoResponse
    /\ url_path' = Path(variant, stream, account_type, account_id)
    /\ records' = <<>>
    /\ earlier_dates' = LastStamped(stream, records, earlier_dates)
    /\ pc' = "request"
    /\ UNCHANGED <<variant, stream, account_type, now, config, bookmark, jsonpath,
                   next_page_token, previous_token, hdrCount, parentVars>>

\* the state of the loop after a validated response r
AfterResponse(r) ==
    LET tok == NextToken(stream, jsonpath, r, cur, now)
    IN  /\ resp' = r
        /\ attempts' = attempts + 1
        /\ previous_token' = next_page_token
        /\ next_page_token' = tok
        /\ pc' = IF Truthy(tok) /\ tok = next_page_token THEN "loop_detected"
                 ELSE IF Truthy(tok) THEN "prepare"
                 ELSE "done"
        /\ hdrCount' = IF r.header \notin {None, ""} THEN hdrCount + 1 ELSE hdrCount
        /\ UNCHANGED <<variant, stream, account_type, now, config, bookmark,
                       jsonpath, pageNo, prev, cur, parentVars, url_path, earlier_dates>>

\* a response that validate_response lets through; a next_page in the body is
\* drawn for the streams that look for one
RespondSuccess ==
    /\ pc = "request"
    /\ \E status \in Statuses, header \in Headers, body \in BodyTokens :
        /\ validate_response(variant, stream, status) = "ok"
        /\ header \notin {None, ""} => hdrCount < MaxHeaderPages
        /\ body # None => jsonpath # None
        /\ AfterResponse(Response(status, header, body))
    /\ \E n \in RowCounts : records' = parse_response(stream, n, cur)

\* RetriableAPIError with tries left: backoff sleeps and the request is sent again
RespondRetriable ==
    /\ pc = "request"
    /\ \E status \in Statuses :
        /\ validate_response(variant, stream, status) = "retriable"
        /\ ~GiveUp(attempts + 1)
        /\ resp' = Response(status, None, None)
        /\ attempts' = attempts + 1
        /\ UNCHANGED <<variant, stream, account_type, now, config, bookmark,
                       jsonpath, pc, pageNo, prev, cur, next_page_token,
                       previous_token, hdrCount, parentVars, url_path, records,
                       earlier_dates>>

\* RetriableAPIError on the last try: the error propagates
RetriesExhausted ==
    /\ pc = "request"
    /\ \E status \in Statuses :
        /\ validate_response(variant, stream, status) = "retriable"
        /\ GiveUp(attempts + 1)
        /\ resp' = Response(status, None, None)
        /\ attempts' = attempts + 1
        /\ pc' = "retries_exhausted"
        /\ UNCHANGED <<variant, stream, account_type, now, config, bookmark,
                       jsonpath, pageNo, prev, cur, next_page_token,
                       previous_token, hdrCount, parentVars, url_path, records,
                       earlier_dates>>

\* FatalAPIError: not caught by the decorator, the sync aborts
RespondFatal ==
    /\ pc = "request"
    /\ \E status \in Statuses :
        /\ validate_response(variant, stream, status) = "fatal"
        /\ resp' = Response(status, None, None)
        /\ attempts' = attempts + 1
        /\ pc' = "fatal"
        /\ UNCHANGED <<variant, stream, account_type, now, config, bookmark,
                       jsonpath, pageNo, prev, cur, next_page_token,
                       previous_token, hdrCount, parentVars, url_path, records,
                       earlier_dates>>

Next ==
    \/ SkipPublishers
    \/ GetRecords
    \/ PrepareRequest
    \/ RespondSuccess
    \/ RespondRetriable
    \/ RetriesExhausted
    \/ RespondFatal

Spec == Init /\ [][Next]_vars

----------------------------------------------------------------------------
(* A sync of a date-windowed stream in which every response succeeds and    *)
(* carries neither an X-Next-Page header nor a next_page in its body.  The  *)
(* loop is sequential and blocking, so it keeps stepping while it can.      *)

InitWindowed == Init /\ Windowed(stream)

RespondPlain ==
    /\ pc = "request"
    /\ AfterResponse(Response(200, None, None))
    /\ \E n \in RowCounts : records' = parse_response(stream, n, cur)

NextPlain ==
    \/ GetRecords
    \/ PrepareRequest
    \/ RespondPlain

PlainSpec == InitWindowed /\ [][NextPlain]_vars /\ WF_vars(NextPlain)

----------------------------------------------------------------------------
(* helpers of the properties *)

\* the date part of a formatted startDate or endDate
DayOf(s) == s[1]

\* the start of the first request of the sync
FirstStart == StartDate(NoToken, bookmark, config)

Max(a, b) == IF a >= b THEN a ELSE b

Yesterday == Today - 1

----------------------------------------------------------------------------
(* C1: with plain successful responses, every page after the first starts   *)
(* at the previous page's endDate, which is one day after the previous      *)
(* page's startDate, and no endDate is later than the cap (today for the    *)
(* advertiser variant, yesterday for the publisher variant).                *)
C1_WindowAdvancesOneDay ==
    /\ pageNo >= 2 =>
        /\ cur.startDate = prev.endDate
        /\ DayOf(cur.startDate) = DayOf(prev.startDate) + 1
    /\ pageNo >= 1 => DayOf(cur.endDate) <= Cap(variant, now).day

----------------------------------------------------------------------------
(* the precondition and the final state of C2 *)
C2_AdvertiserStart == variant = "advertiser" /\ FirstStart.day <= Today

C2_AdvertiserStopped ==
    /\ pc = "done"
    /\ ~Truthy(next_page_token)
    /\ DayOf(cur.endDate) = Today
    /\ pageNo = Max(1, Today - FirstStart.day)

(* C2: in the advertiser variant, from a start day not after today and with *)
(* plain successful responses, the loop stops: it ends after                *)
(* max(1, today - start day) pages, the last one having endDate today.      *)
C2_AdvertiserTerminates == C2_AdvertiserStart ~> C2_AdvertiserStopped

C2_Witness ==
    /\ C2_AdvertiserStart
    /\ C2_AdvertiserStopped
    /\ pageNo >= 2

----------------------------------------------------------------------------
(* C3: in the publisher variant, from a start day not after yesterday and   *)
(* with plain successful responses, the page whose endDate reaches          *)
(* yesterday is the last page requested and no token equals the token that  *)
(* preceded it.                                                             *)
C3_PublisherStopsAtYesterday ==
    (variant = "publisher" /\ FirstStart.day <= Yesterday) =>
        /\ pageNo >= 2 => DayOf(prev.endDate) < Yesterday
        /\ pc # "loop_detected"
        /\ Truthy(next_page_token) => next_page_token # previous_token

----------------------------------------------------------------------------
RetryableStatus(status) == status = 429 \/ (500 <= status /\ status < 600)

(* C5: on every stream a response with status 429 or 5xx is retryable: the  *)
(* request is sent again (while tries are left) and the stream does not     *)
(* abort with a fatal error.                                                *)
C5_RetryableOnEveryStream ==
    (variant = "advertiser" /\ RetryableStatus(resp.status)) =>
        /\ pc # "fatal"
        /\ attempts < max_tries => pc = "request"

----------------------------------------------------------------------------
FatalStatus(status) == 400 <= status /\ status < 500 /\ status # 429

(* C6: a 4xx response other than 429 is fatal: the sync stops there, no     *)
(* further request is made and no next token is derived from it.            *)
C6_ClientErrorIsFatal ==
    (variant = "advertiser" /\ FatalStatus(resp.status)) =>
        /\ pc = "fatal"
        /\ next_page_token = cur.token
        /\ ~ENABLED Next

C6_Witness ==
    /\ variant = "advertiser"
    /\ resp.status = 404
    /\ pc = "fatal"
    /\ pageNo >= 2
    /\ attempts >= 2

----------------------------------------------------------------------------
(* C7: a request is attempted at most 10 times; when the 10th attempt is    *)
(* retryable too the error propagates and the stream stops; a success on    *)
(* any attempt up to the 10th continues pagination from that response.      *)
C7_RetriesBounded ==
    variant = "advertiser" =>
        /\ attempts <= 10
        /\ pc = "request" => attempts < 10
        /\ pc = "retries_exhausted" =>
            /\ attempts = 10
            /\ validate_response(variant, stream, resp.status) = "retriable"
            /\ ~ENABLED Next
        /\ (pageNo >= 1 /\ validate_response(variant, stream, resp.status) = "retriable") =>
            \/ pc = "request"
            \/ pc = "retries_exhausted" /\ attempts = 10
        /\ (pageNo >= 1 /\ resp.status = 200) =>
            /\ pc \in {"prepare", "done", "loop_detected"}
            /\ next_page_token = NextToken(stream, jsonpath, resp, cur, now)

C7_Witness ==
    /\ variant = "advertiser"
    /\ attempts = 10
    /\ resp.status = 200
    /\ pc = "prepare"

----------------------------------------------------------------------------
(* C8: every request of a date-windowed stream covers at most one day,      *)
(* ending at min(start + 1 day, cap): exactly one day after startDate when  *)
(* start + 1 day is not after the cap, the cap's day otherwise.             *)
C8_OneDayWindow ==
    (Windowed(stream) /\ pageNo >= 1) =>
        LET s == DayOf(cur.startDate)
            e == DayOf(cur.endDate)
            cap == IF variant = "publisher" THEN Datetime(Today - 1, now.tod) ELSE now
            next == Datetime(cur.start.day + 1, cur.start.tod)
        IN  /\ s = cur.start.day
            /\ e - s <= 1
            /\ e <= cap.day
            /\ ~Before(cap, next) => e = s + 1
            /\ Before(cap, next) => e = cap.day

C8_Witness ==
    /\ Windowed(stream)
    /\ pageNo >= 2
    /\ DayOf(cur.endDate) = DayOf(cur.startDate) + 1
    /\ DayOf(cur.endDate) = Cap(variant, now).day

----------------------------------------------------------------------------
(* C9: only the first request starts from starting timestamp - lookback;    *)
(* every later request starts from the token of the previous page, however  *)
(* that token was derived.                                                  *)
C9_LaterPagesStartFromToken ==
    Windowed(stream) =>
        /\ pageNo = 1 => cur.start = FirstStart
        /\ pageNo >= 2 =>
            /\ Truthy(cur.token)
            /\ cur.token.kind = "datetime"
            /\ cur.start = Datetime(cur.token.day, cur.token.tod)

----------------------------------------------------------------------------
(* C10: no request of a date-windowed stream has a startDate earlier than   *)
(* the configured start_date.                                               *)
C10_StartDateIsEarliest ==
    (Windowed(stream) /\ pageNo >= 1) =>
        DayOf(cur.startDate) >= config.start_date.day

----------------------------------------------------------------------------
(* get_next_page_token of the date-windowed streams as a function of its    *)
(* inputs: the stream's next_page_token_jsonpath (the streams set it to     *)
(* None, the base class to "$.next_page"), the body's first match, the      *)
(* X-Next-Page header, the request's endDate and the clock.                 *)

TokenRequests(s) ==
    {[start |-> Datetime(e - 1, 0),
      startDate |-> strftime(Datetime(e - 1, 0), TimestampFormat(s)),
      endDate |-> strftime(Datetime(e, 0), TimestampFormat(s)),
      token |-> NoToken] : e \in Days}

InitToken ==
    /\ variant \in Variants
    /\ stream \in {s \in StreamsOf(variant) : Windowed(s)}
    /\ account_type \in ContextTypes(variant, stream)
    /\ now \in {Datetime(Today, t) : t \in Tods}
    /\ config = [start_date |-> Datetime(0, 0), lookback_days |-> 0]
    /\ bookmark = NoBookmark
    /\ jsonpath \in {None, "$.next_page"}
    /\ pc = "response"
    /\ pageNo = 1
    /\ prev = NoRequest
    /\ cur \in TokenRequests(stream)
    /\ attempts = 1
    /\ resp \in {Response(200, h, b) : h \in Headers, b \in BodyTokens}
    /\ next_page_token = NoToken
    /\ previous_token = NoToken
    /\ hdrCount = 0
    /\ InitContext

ApplyNextPageToken ==
    /\ pc = "response"
    /\ next_page_token' = get_next_page_token(jsonpath, resp.next_page, resp.header,
                                              cur.endDate, TimestampFormat(stream), now)
    /\ pc' = "token"
    /\ UNCHANGED <<variant, stream, account_type, now, config, bookmark, jsonpath,
                   pageNo, prev, cur, attempts, resp, previous_token, hdrCount,
                   parentVars, url_path, records, earlier_dates>>

NextTokenSpec == ApplyNextPageToken

TokenSpec == InitToken /\ [][NextTokenSpec]_vars

----------------------------------------------------------------------------
(* what each source yields for the response at hand *)
BodyYields == jsonpath # None /\ resp.next_page # None
HeaderYields == resp.header # None /\ resp.header # ""
RolloverYields == DayOf(cur.endDate) < Today

RolloverToken ==
    IF RolloverYields THEN DatetimeToken(Datetime(DayOf(cur.endDate), 0)) ELSE NoToken

----------------------------------------------------------------------------
(* The accounts stream as parent: it emits the account records of its       *)
(* response one by one, makes a child context from each and syncs every     *)
(* child stream in that context before the next record.  The variables of   *)
(* the loop describe the stream that is running, parent or child; every     *)
(* response is a plain success.  An error of a child ends the whole sync.   *)

AccountBodies ==
    UNION {[1..n -> AccountRecords] : n \in 0..MaxAccounts}

InitParent ==
    /\ variant \in Variants
    /\ stream = "accounts"
    /\ account_type = None
    /\ now = Datetime(Today, 1)
    /\ config \in Configs
    /\ bookmark = NoBookmark
    /\ jsonpath = next_page_token_jsonpath(stream)
    /\ pc = "start"
    /\ pageNo = 0
    /\ prev = NoRequest
    /\ cur = NoRequest
    /\ attempts = 0
    /\ resp = NoResponse
    /\ next_page_token = NoToken
    /\ previous_token = NoToken
    /\ hdrCount = 0
    /\ InitContext

\* the accounts response: its records are handed out before the next token
AccountsRespond ==
    /\ pc = "request"
    /\ stream = "accounts"
    /\ \E body \in AccountBodies : pending' = body
    /\ resp' = Response(200, None, None)
    /\ attempts' = attempts + 1
    /\ pc' = "records"
    /\ UNCHANGED <<variant, stream, account_type, now, config, bookmark, jsonpath,
                   pageNo, prev, cur, next_page_token, previous_token, hdrCount,
                   emitted, contexts, account_id, children, url_path, records,
                   earlier_dates>>

\* one account record is emitted and its child context made
EmitAccount ==
    /\ pc = "records"
    /\ children = {}
    /\ pending # <<>>
    /\ LET record == Head(pending)
           context == get_child_context(variant, record)
       IN  /\ emitted' = Append(emitted, record)
           /\ contexts' = Append(contexts, context)
           /\ account_id' = context.account_id
           /\ account_type' = context.account_type
    /\ pending' = Tail(pending)
    /\ children' = ChildStreams(variant)
    /\ UNCHANGED <<variant, stream, now, config, bookmark, jsonpath, pc, pageNo,
                   prev, cur, attempts, resp, next_page_token, previous_token,
                   hdrCount, url_path, records, earlier_dates>>

\* a child stream starts its sync in the current context
StartChild ==
    /\ pc = "records"
    /\ \E s \in children :
        /\ stream' = s
        /\ jsonpath' = next_page_token_jsonpath(s)
        /\ children' = children \ {s}
    /\ pc' = "start"
    /\ pageNo' = 0
    /\ prev' = NoRequest
    /\ cur' = NoRequest
    /\ attempts' = 0
    /\ resp' = NoResponse
    /\ next_page_token' = NoToken
    /\ previous_token' = NoToken
    /\ url_path' = <<>>
    /\ records' = <<>>
    /\ earlier_dates' = <<>>
    /\ UNCHANGED <<variant, account_type, now, config, bookmark, hdrCount, pending,
                   emitted, contexts, account_id>>

ChildRespond ==
    /\ stream # "accounts"
    /\ RespondPlain

\* the child is through: the parent goes on with its records
FinishChild ==
    /\ stream # "accounts"
    /\ pc \in {"done", "skipped"}
    /\ stream' = "accounts"
    /\ jsonpath' = next_page_token_jsonpath("accounts")
    /\ pc' = "records"
    /\ UNCHANGED <<variant, account_type, now, config, bookmark, pageNo, prev, cur,
                   attempts, resp, next_page_token, previous_token, hdrCount,
                   parentVars, url_path, records, earlier_dates>>

\* no record is left: the plain accounts response gives no next token
FinishAccounts ==
    /\ pc = "records"
    /\ children = {}
    /\ pending = <<>>
    /\ pc' = "done"
    /\ UNCHANGED <<variant, stream, account_type, now, config, bookmark, jsonpath,
                   pageNo, prev, cur, attempts, resp, next_page_token,
                   previous_token, hdrCount, parentVars, url_path, records,
                   earlier_dates>>

NextParent ==
    \/ GetRecords
    \/ SkipPublishers
    \/ PrepareRequest
    \/ AccountsRespond
    \/ EmitAccount
    \/ StartChild
    \/ ChildRespond
    \/ FinishChild
    \/ FinishAccounts

ParentSpec == InitParent /\ [][NextParent]_vars

----------------------------------------------------------------------------
\* the request being sent is a child stream's
ChildRequest == stream # "accounts" /\ pageNo >= 1

(* C11 as stated: every child request names in its path the accountId (and, *)
(* in the advertiser variant, by its prefix the accountType) of one emitted *)
(* account record, and every emitted record has one child context carrying  *)
(* its own id and type.                                                     *)
C11_ChildContextCarriesIdAndType ==
    /\ ChildRequest =>
        \E i \in DOMAIN emitted :
            /\ url_path[2] = emitted[i].accountId
            /\ variant = "advertiser" => url_path[1] = emitted[i].accountType \o "s"
    /\ Len(contexts) = Len(emitted)
    /\ \A i \in DOMAIN emitted :
        /\ contexts[i].account_id = emitted[i].accountId
        /\ contexts[i].account_type = emitted[i].accountType

(* C11 amended: as C11, but the child context carries the record's type in  *)
(* the advertiser variant only; in the publisher variant it carries the id  *)
(* alone.                                                                   *)
C11_ChildContextCarriesId ==
    /\ ChildRequest =>
        \E i \in DOMAIN emitted :
            /\ url_path[2] = emitted[i].accountId
            /\ variant = "advertiser" => url_path[1] = emitted[i].accountType \o "s"
    /\ Len(contexts) = Len(emitted)
    /\ \A i \in DOMAIN emitted :
        /\ contexts[i].account_id = emitted[i].accountId
        /\ variant = "advertiser" => contexts[i].account_type = emitted[i].accountType
        /\ variant = "publisher" => contexts[i].account_type = None

C11_Witness ==
    /\ ChildRequest
    /\ Len(emitted) = 2
    /\ emitted[1] # emitted[2]
    /\ url_path[2] = emitted[2].accountId
    /\ url_path[1] = "publishers"

----------------------------------------------------------------------------
(* C12: the publishers stream is fetched only for advertiser accounts: in   *)
(* any other context get_records sends no request and emits no record; in  *)
(* an advertiser's context it goes into the paginated fetch.                *)
C12_PublishersOnlyForAdvertisers ==
    stream = "publishers" =>
        /\ account_type # "advertiser" =>
            /\ pc \in {"start", "skipped"}
            /\ pageNo = 0
            /\ attempts = 0
            /\ resp = NoResponse
            /\ url_path = <<>>
            /\ records = <<>>
        /\ account_type = "advertiser" =>
            /\ pc # "skipped"
            /\ pc # "start" => (pc = "prepare" \/ pageNo >= 1)
            /\ pageNo >= 1 => url_path = <<"advertisers", account_id, "publishers">>

C12_Witness ==
    /\ stream = "publishers"
    /\ account_type = "publisher"
    /\ pc = "skipped"

----------------------------------------------------------------------------
(* C13 as stated: every record report_by_publisher emits from a page has    *)
(* the page's request startDate as transactionDate; with computed rollover  *)
(* the dates never decrease and are never later than yesterday.             *)
C13_StampedNotAfterYesterday ==
    stream = "report_by_publisher" =>
        \A i \in DOMAIN records :
            /\ records[i].transactionDate = Datetime(DayOf(cur.startDate), 0)
            /\ earlier_dates # <<>> =>
                ~Before(records[i].transactionDate, earlier_dates[1])
            /\ records[i].transactionDate.day <= Yesterday

(* C13 amended: as C13, but the dates are never later than the later of     *)
(* yesterday and the day the sync's first request starts on.                *)
C13_StampedWithStartDate ==
    stream = "report_by_publisher" =>
        \A i \in DOMAIN records :
            /\ records[i].transactionDate = Datetime(DayOf(cur.startDate), 0)
            /\ earlier_dates # <<>> =>
                ~Before(records[i].transactionDate, earlier_dates[1])
            /\ records[i].transactionDate.day <= Max(Yesterday, FirstStart.day)

C13_Witness ==
    /\ stream = "report_by_publisher"
    /\ records # <<>>
    /\ earlier_dates # <<>>
    /\ pageNo >= 3
    /\ records[1].transactionDate = Datetime(Yesterday, 0)

----------------------------------------------------------------------------
(* C14: in every request of a date-windowed stream the startDate is not     *)
(* later than the endDate.                                                  *)
C14_WindowNeverInverted ==
    (Windowed(stream) /\ pageNo >= 1) =>
        DayOf(cur.startDate) <= DayOf(cur.endDate)

====
